---- MODULE Spec2Model ----
(***************************************************************************)
(* Model of src/server/litellm_bridge.py: one invocation of main().        *)
(*                                                                         *)
(* Python values (the parsed JSON request, the parsed YAML template        *)
(* document) are records of one shape, [t, v, items, entries]:             *)
(*   t       "none" | "num" | "str" | "list" | "map"                       *)
(*   v       the text of a str or num, a sequence of tokens (a token is an *)
(*           atomic run of characters; " " is a whitespace token)          *)
(*   items   the elements of a list                                        *)
(*   entries the (key, val) pairs of a map, in insertion order             *)
(* A raised exception is [cls, msg], msg being str(e) as a token sequence. *)
(***************************************************************************)
EXTENDS Integers, Sequences, FiniteSets, TLC

\* ------------------------------------------------------------------ bounds
\* Largest number of key/value pairs written in the request's "variables".
MaxVars == 2

\* ------------------------------------------------------------ Python values
NoneV == [t |-> "none", v |-> <<>>, items |-> <<>>, entries |-> <<>>]

StrV(s) == [t |-> "str", v |-> s, items |-> <<>>, entries |-> <<>>]

NumV(s) == [t |-> "num", v |-> s, items |-> <<>>, entries |-> <<>>]

ListV(xs) == [t |-> "list", v |-> <<>>, items |-> xs, entries |-> <<>>]

MapV(es) == [t |-> "map", v |-> <<>>, items |-> <<>>, entries |-> es]

KV(k, x) == [key |-> k, val |-> x]

Tok(s) == StrV(<<s>>)

\* An exception instance; NoExc when nothing is being propagated.
Exc(c, m) == [cls |-> c, msg |-> m]

NoExc == Exc("", <<>>)

\* The outcome of evaluating an expression: a value, or a raised exception.
Ok(x) == [exc |-> NoExc, val |-> x]

Raise(c, m) == [exc |-> Exc(c, m), val |-> NoneV]

\* The exception classes involved and their direct base class.
Base(c) ==
    CASE c = "FileNotFoundError" -> "OSError"
      [] c = "IsADirectoryError" -> "OSError"
      [] c = "OSError" -> "Exception"
      [] c = "YAMLError" -> "Exception"
      [] c = "KeyError" -> "LookupError"
      [] c = "LookupError" -> "Exception"
      [] c = "JSONDecodeError" -> "ValueError"
      [] c = "UnicodeDecodeError" -> "ValueError"
      [] c = "ValueError" -> "Exception"
      [] c = "TypeError" -> "Exception"
      [] c = "AttributeError" -> "Exception"
      [] c = "PDLRuntimeError" -> "Exception"
      [] c = "PDLParseError" -> "Exception"
      [] OTHER -> "BaseException"

RECURSIVE IsInstance(_, _)
\* isinstance(e, k) for an exception of class c.
IsInstance(c, k) ==
    IF c = k THEN TRUE
    ELSE IF c = "BaseException" THEN FALSE
    ELSE IsInstance(Base(c), k)

\* ------------------------------------------------------------- str helpers
IsSpace(tok) == tok = " "

RECURSIVE LStrip(_)
LStrip(s) == IF s # <<>> /\ IsSpace(Head(s)) THEN LStrip(Tail(s)) ELSE s

RECURSIVE RStrip(_)
RStrip(s) ==
    IF s # <<>> /\ IsSpace(s[Len(s)]) THEN RStrip(SubSeq(s, 1, Len(s) - 1)) ELSE s

\* Mutant of Strip: the trailing whitespace is left in place.
Strip_LeadingOnly(s) == LStrip(s)

\* str.strip()
Strip(s) == RStrip(LStrip(s))

\* needle in haystack, for two str values
IsSubstring(n, h) ==
    \E i \in 0..(Len(h) - Len(n)) : SubSeq(h, i + 1, i + Len(n)) = n

\* str(x) for the values the engine can return and for formatted fields.
Str(x) ==
    CASE x.t = "none" -> <<"None">>
      [] x.t = "str" -> x.v
      [] x.t = "num" -> x.v
      [] x.t = "list" -> <<"[...]">>
      [] OTHER -> <<"{...}">>

\* ------------------------------------------------------------ dict helpers
HasKey(d, k) == \E i \in 1..Len(d.entries) : d.entries[i].key = k

Lookup(d, k) ==
    d.entries[CHOOSE i \in 1..Len(d.entries) : d.entries[i].key = k].val

\* x.get(k, default): only a dict has .get
Get(x, k, default) ==
    IF x.t # "map" THEN Raise("AttributeError", <<"object has no attribute 'get'">>)
    ELSE IF HasKey(x, k) THEN Ok(Lookup(x, k))
    ELSE Ok(default)

\* k in c
Contains(k, c) ==
    CASE c.t = "map" ->
           IF k.t \in {"list", "map"} THEN Raise("TypeError", <<"unhashable type">>)
           ELSE Ok(HasKey(c, k))
      [] c.t = "list" -> Ok(\E i \in 1..Len(c.items) : c.items[i] = k)
      [] c.t = "str" ->
           IF k.t = "str" THEN Ok(IsSubstring(k.v, c.v))
           ELSE Raise("TypeError", <<"'in <string>' requires string as left operand">>)
      [] OTHER -> Raise("TypeError", <<"argument is not iterable">>)

\* c[k]
GetItem(c, k) ==
    CASE c.t = "map" ->
           IF k.t \in {"list", "map"} THEN Raise("TypeError", <<"unhashable type">>)
           ELSE IF HasKey(c, k) THEN Ok(Lookup(c, k))
           ELSE Raise("KeyError", <<"'">> \o Str(k) \o <<"'">>)
      [] c.t = "list" ->
           Raise("TypeError", <<"list indices must be integers or slices">>)
      [] c.t = "str" ->
           Raise("TypeError", <<"string indices must be integers">>)
      [] OTHER -> Raise("TypeError", <<"object is not subscriptable">>)

RECURSIVE KeysOf(_)
KeysOf(es) == IF es = <<>> THEN <<>> ELSE <<Head(es).key.v[1]>> \o KeysOf(Tail(es))

\* list(x.keys()): only a dict has .keys
Keys(x) ==
    IF x.t # "map" THEN Raise("AttributeError", <<"object has no attribute 'keys'">>)
    ELSE [exc |-> NoExc, val |-> KeysOf(x.entries)]

\* ------------------------------------------------------------ path helpers
\* A path is a str whose tokens are "/" and the names between them.
IsAbs(p) == p # <<>> /\ p[1] = "/"

RECURSIVE StripSlashes(_)
StripSlashes(p) ==
    IF p # <<>> /\ p[Len(p)] = "/" THEN StripSlashes(SubSeq(p, 1, Len(p) - 1)) ELSE p

\* os.path.dirname
Dirname(p) ==
    LET slashes == {i \in 1..Len(p) : p[i] = "/"}
        i == IF slashes = {} THEN 0 ELSE CHOOSE j \in slashes : \A k \in slashes : k <= j
        head == SubSeq(p, 1, i)
    IN IF StripSlashes(head) = <<>> THEN head ELSE StripSlashes(head)

\* os.path.join(a, b)
Join(a, b) ==
    IF IsAbs(b) THEN b
    ELSE IF a = <<>> \/ a[Len(a)] = "/" THEN a \o b
    ELSE a \o <<"/">> \o b

\* os.path.abspath(__file__) of the installed script
ScriptFile == <<"/", "app", "/", "src", "/", "server", "/", "litellm_bridge.py">>

DefaultPdlFile == <<".", "/", "prompts", "/", "story-prompts.pdl">>

\* Mutant of ResolvePdlPath: the root is taken one directory too low.
ResolvePdlPath_OneLevelUp(p) ==
    IF IsAbs(p) THEN p
    ELSE LET script_dir == Dirname(ScriptFile)
             project_root == Dirname(script_dir)
         IN Join(project_root, p)

\* lines 18-23: the path handed to open()
ResolvePdlPath(p) ==
    IF IsAbs(p) THEN p
    ELSE LET script_dir == Dirname(ScriptFile)
             project_root == Dirname(Dirname(script_dir))
         IN Join(project_root, p)

RECURSIVE Components(_)
\* The names the operating system walks for a path: "/" and "." dropped.
Components(p) ==
    IF p = <<>> THEN <<>>
    ELSE IF Head(p) \in {"/", "."} THEN Components(Tail(p))
    ELSE <<Head(p)>> \o Components(Tail(p))

\* ------------------------------------------------------------- environment
\* The files an invocation can be pointed at, by their components.
FsPaths ==
    { <<"app", "prompts", "story-prompts.pdl">>,
      <<"app", "a.pdl">>,
      <<"srv", "a.pdl">> }

\* "missing": nothing at the path (ENOENT); "directory": open() fails with
\* another OSError; "file": a readable regular file.
FileStates == {"missing", "directory", "file"}

StateOfPath(files, p) ==
    IF Components(p) \in DOMAIN files THEN files[Components(p)] ELSE "missing"

\* open(path, 'r')
Open(files, p) ==
    CASE StateOfPath(files, p) = "missing" ->
           Raise("FileNotFoundError", <<"[Errno 2] No such file or directory">>)
      [] StateOfPath(files, p) = "directory" ->
           Raise("IsADirectoryError", <<"[Errno 21] Is a directory">>)
      [] OTHER -> Ok(NoneV)

Greet == Tok("greet")

Other == Tok("other")

TextDef == MapV(<<KV(Tok("description"), Tok("d")), KV(Tok("text"), Tok("Hello ${name}"))>>)

NoTextDef == MapV(<<KV(Tok("description"), Tok("d"))>>)

DefsDoc(d) == MapV(<<KV(Tok("description"), Tok("prompts")), KV(Tok("defs"), d)>>)

\* The values yaml.safe_load can return for the template file.
Documents ==
    { NoneV,
      Tok("plain scalar"),
      ListV(<<Greet>>),
      MapV(<<KV(Tok("description"), Tok("prompts"))>>),
      DefsDoc(NoneV),
      DefsDoc(StrV(<<"a", "greet", "b">>)),
      DefsDoc(ListV(<<Greet>>)),
      DefsDoc(MapV(<<KV(Greet, TextDef)>>)),
      DefsDoc(MapV(<<KV(Greet, NoTextDef)>>)),
      DefsDoc(MapV(<<KV(Greet, Tok("Hello"))>>)),
      DefsDoc(MapV(<<KV(Greet, NoneV)>>)),
      DefsDoc(MapV(<<KV(NoneV, TextDef)>>)),
      DefsDoc(MapV(<<KV(NumV(<<"0">>), NoTextDef)>>)),
      DefsDoc(MapV(<<KV(Greet, TextDef), KV(Other, NoTextDef)>>)) }

\* What reading and parsing the file's bytes gives: a YAML syntax error, bytes
\* that do not decode as text, or a document.
Contents ==
    { [kind |-> "yaml_error", doc |-> NoneV], [kind |-> "decode_error", doc |-> NoneV] }
    \cup { [kind |-> "doc", doc |-> d] : d \in Documents }

\* yaml.safe_load(f)
SafeLoad(c) ==
    CASE c.kind = "yaml_error" -> Raise("YAMLError", <<"while parsing a block mapping">>)
      [] c.kind = "decode_error" ->
           Raise("UnicodeDecodeError", <<"'utf-8' codec can't decode byte">>)
      [] OTHER -> Ok(c.doc)

\* ----------------------------------------------------------------- request
VarNames == {"name", "age"}

KeySeqs == UNION { [1..n -> VarNames] : n \in 0..MaxVars }

VarsObject(ks) == MapV([i \in 1..Len(ks) |-> KV(Tok(ks[i]), Tok("v"))])

Absent == [present |-> FALSE, val |-> NoneV]

Present(x) == [present |-> TRUE, val |-> x]

PdlFileOpts ==
    { Absent, Present(NumV(<<"5">>)), Present(StrV(<<"a.pdl">>)),
      Present(StrV(<<"/", "srv", "/", "a.pdl">>)) }

TemplateOpts ==
    { Absent, Present(Greet), Present(Other), Present(NumV(<<"0">>)), Present(ListV(<<>>)) }

VariablesOpts ==
    { Absent, Present(NoneV), Present(ListV(<<Tok("v")>>)) }
    \cup { Present(VarsObject(ks)) : ks \in KeySeqs }

Field(k, o) == IF o.present THEN <<KV(Tok(k), o.val)>> ELSE <<>>

\* The JSON text of a request object, as written: its members in order.
RequestText(p, t, v) ==
    [kind |-> "json",
     doc |-> MapV(Field("pdl_file", p) \o Field("template", t) \o Field("variables", v))]

\* What the caller can write to standard input.
Stdins ==
    { [kind |-> "malformed", doc |-> NoneV], [kind |-> "json", doc |-> ListV(<<>>)] }
    \cup { RequestText(p, t, v) : p \in PdlFileOpts, t \in TemplateOpts, v \in VariablesOpts }

RECURSIVE PutAll(_, _)
\* dict construction from members in order: a repeated key keeps its first
\* position and takes the last value.
PutAll(acc, es) ==
    IF es = <<>> THEN acc
    ELSE LET e == Head(es)
             hit == {i \in 1..Len(acc) : acc[i].key = e.key}
         IN IF hit = {} THEN PutAll(Append(acc, e), Tail(es))
            ELSE PutAll([acc EXCEPT ![CHOOSE i \in hit : TRUE] = e], Tail(es))

RECURSIVE Decode(_)
Decode(x) ==
    CASE x.t = "map" ->
           MapV(PutAll(<<>>, [i \in 1..Len(x.entries) |->
                                KV(x.entries[i].key, Decode(x.entries[i].val))]))
      [] x.t = "list" -> ListV([i \in 1..Len(x.items) |-> Decode(x.items[i])])
      [] OTHER -> x

\* Mutant of JsonLoads: unparsable input is read as an empty request.
JsonLoads_Lenient(text) ==
    IF text.kind = "malformed" THEN Ok(MapV(<<>>)) ELSE Ok(Decode(text.doc))

\* json.loads(sys.stdin.read())
JsonLoads(text) ==
    IF text.kind = "malformed"
    THEN Raise("JSONDecodeError", <<"Expecting value: line 1 column 1 (char 0)">>)
    ELSE Ok(Decode(text.doc))

\* ------------------------------------------------------------------ engine
\* Line 58: the length above which debug_preview is cut.
PreviewLimit == 200

LongText == [i \in 1..(PreviewLimit + 1) |-> "x"]

\* The exceptions a call into the external engine can end with: its own error
\* classes and built-in ones raised by what a template does (a read of a
\* missing file, a lookup of a missing key, a YAML error in included data).
EngineErrors ==
    { Exc("PDLRuntimeError", <<"model call failed">>),
      Exc("FileNotFoundError", <<"[Errno 2] No such file or directory: 'data.txt'">>),
      Exc("YAMLError", <<"could not determine a constructor">>),
      Exc("KeyError", <<"'", "model", "'">>) }

\* The values exec_program can return.
EngineResults ==
    { Tok("Hello Ann"), StrV(<<" ", "Hello", " ", "Ann", " ">>), StrV(<<>>),
      StrV(<<" ", " ">>), NoneV, StrV(LongText) }

\* yaml.dump({'text': template_text})
YamlDump(text) == MapV(<<KV(Tok("text"), text)>>)

\* parse_str(direct_pdl): a (program, location) pair, or an engine error
ParseStrOutcomes(direct_pdl) ==
    { Ok(direct_pdl) } \cup { [exc |-> e, val |-> NoneV] : e \in EngineErrors }
    \cup { Raise("PDLParseError", <<"is not a valid PDL program">>) }

\* exec_program(parsed_program, scope=variables)
ExecProgramOutcomes(program, scope) ==
    { Ok(r) : r \in EngineResults } \cup { [exc |-> e, val |-> NoneV] : e \in EngineErrors }

\* ------------------------------------------------------------------- state
VARIABLES
    stdin,          \* the text on standard input
    files,          \* the file system: path components -> FileStates
    content,        \* what the template file holds
    pc,             \* the statement main() is at
    input_data, pdl_file_path, pdl_config, template_name, variables,
    template_text, parsed_program, result, output,   \* locals of main()
    exc,            \* the exception being propagated to the except clauses
    stdout,         \* the JSON objects printed, in order
    exit_code,      \* the process exit status, -1 while running
    steps           \* the statements executed so far, in order

vars ==
    <<stdin, files, content, pc, input_data, pdl_file_path, pdl_config, template_name,
      variables, template_text, parsed_program, result, output, exc, stdout, exit_code,
      steps>>

env == <<stdin, files, content>>

NoOutput == [success |-> FALSE]

Init ==
    /\ stdin \in Stdins
    /\ files \in [FsPaths -> FileStates]
    /\ content \in Contents
    /\ pc = "read_stdin"
    /\ input_data = NoneV
    /\ pdl_file_path = NoneV
    /\ pdl_config = NoneV
    /\ template_name = NoneV
    /\ variables = NoneV
    /\ template_text = NoneV
    /\ parsed_program = NoneV
    /\ result = NoneV
    /\ output = NoOutput
    /\ exc = NoExc
    /\ stdout = <<>>
    /\ exit_code = -1
    /\ steps = <<>>

\* Control after a statement whose evaluation gave o: on to statement next, or
\* out of the try block to the except clauses with the exception raised.
Goto(name, o, next) ==
    /\ pc' = IF o.exc = NoExc THEN next ELSE "except"
    /\ exc' = o.exc
    /\ steps' = Append(steps, name)
    /\ UNCHANGED <<env, stdout, exit_code>>

\* line 12
ReadStdin ==
    /\ pc = "read_stdin"
    /\ LET o == JsonLoads(stdin)
       IN /\ Goto("read_stdin", o, "get_pdl_file")
          /\ input_data' = o.val
    /\ UNCHANGED <<pdl_file_path, pdl_config, template_name, variables, template_text,
                   parsed_program, result, output>>

\* line 15
GetPdlFile ==
    /\ pc = "get_pdl_file"
    /\ LET o == Get(input_data, Tok("pdl_file"), StrV(DefaultPdlFile))
       IN /\ Goto("get_pdl_file", o, "resolve_path")
          /\ pdl_file_path' = o.val
    /\ UNCHANGED <<input_data, pdl_config, template_name, variables, template_text,
                   parsed_program, result, output>>

\* os.path.isabs and os.path.join accept str (or bytes, PathLike) only
ResolveOutcome(p) ==
    IF p.t # "str" THEN Raise("TypeError", <<"expected str, bytes or os.PathLike object">>)
    ELSE Ok(StrV(ResolvePdlPath(p.v)))

\* lines 18-23
ResolvePath ==
    /\ pc = "resolve_path"
    /\ LET o == ResolveOutcome(pdl_file_path)
       IN /\ Goto("resolve_path", o, "open_file")
          /\ pdl_file_path' = IF o.exc = NoExc THEN o.val ELSE pdl_file_path
    /\ UNCHANGED <<input_data, pdl_config, template_name, variables, template_text,
                   parsed_program, result, output>>

\* line 25
OpenFile ==
    /\ pc = "open_file"
    /\ Goto("open_file", Open(files, pdl_file_path.v), "safe_load")
    /\ UNCHANGED <<input_data, pdl_file_path, pdl_config, template_name, variables,
                   template_text, parsed_program, result, output>>

\* line 26
LoadYaml ==
    /\ pc = "safe_load"
    /\ LET o == SafeLoad(content)
       IN /\ Goto("safe_load", o, "lookup_template")
          /\ pdl_config' = o.val
    /\ UNCHANGED <<input_data, pdl_file_path, template_name, variables, template_text,
                   parsed_program, result, output>>

\* Mutant of TemplateCheck: an absent name is not rejected.
TemplateCheck_NoRaise(config, name) ==
    LET defs == Get(config, Tok("defs"), MapV(<<>>))
        found == Contains(name, defs.val)
    IN IF defs.exc # NoExc THEN Raise(defs.exc.cls, defs.exc.msg)
       ELSE IF found.exc # NoExc THEN Raise(found.exc.cls, found.exc.msg)
       ELSE Ok(name)

\* lines 30-31, given template_name
TemplateCheck(config, name) ==
    LET defs == Get(config, Tok("defs"), MapV(<<>>))
        found == Contains(name, defs.val)
    IN IF defs.exc # NoExc THEN Raise(defs.exc.cls, defs.exc.msg)
       ELSE IF found.exc # NoExc THEN Raise(found.exc.cls, found.exc.msg)
       ELSE IF ~found.val
            THEN Raise("ValueError",
                       <<"Template '">> \o Str(name) \o <<"' not found in PDL configuration">>)
       ELSE Ok(name)

\* lines 29-31
LookupTemplate ==
    /\ pc = "lookup_template"
    /\ LET name == Get(input_data, Tok("template"), NoneV)
           o == IF name.exc # NoExc THEN name ELSE TemplateCheck(pdl_config, name.val)
       IN /\ Goto("lookup_template", o, "get_template")
          /\ template_name' = name.val
    /\ UNCHANGED <<input_data, pdl_file_path, pdl_config, variables, template_text,
                   parsed_program, result, output>>

\* pdl_config['defs'][template_name]
TemplateDef(config, name) ==
    LET defs == GetItem(config, Tok("defs"))
    IN IF defs.exc # NoExc THEN defs ELSE GetItem(defs.val, name)

\* lines 33-38
GetTemplate ==
    /\ pc = "get_template"
    /\ LET t == TemplateDef(pdl_config, template_name)
           v == Get(input_data, Tok("variables"), MapV(<<>>))
           o == IF t.exc # NoExc THEN t ELSE v
       IN /\ Goto("get_template", o, "get_text")
          /\ variables' = IF t.exc = NoExc THEN v.val ELSE variables
    /\ UNCHANGED <<input_data, pdl_file_path, pdl_config, template_name, template_text,
                   parsed_program, result, output>>

\* line 41, template_def being pdl_config['defs'][template_name] again (line 38)
GetText ==
    /\ pc = "get_text"
    /\ LET o == GetItem(TemplateDef(pdl_config, template_name).val, Tok("text"))
       IN /\ Goto("get_text", o, "parse_str")
          /\ template_text' = o.val
    /\ UNCHANGED <<input_data, pdl_file_path, pdl_config, template_name, variables,
                   parsed_program, result, output>>

\* lines 47-50
ParseStr ==
    /\ pc = "parse_str"
    /\ \E o \in ParseStrOutcomes(YamlDump(template_text)) :
          /\ Goto("parse_str", o, "exec_program")
          /\ parsed_program' = o.val
    /\ UNCHANGED <<input_data, pdl_file_path, pdl_config, template_name, variables,
                   template_text, result, output>>

\* Mutant of ExecProgram: a first failure of the engine is tried again.
ExecProgram_Retry ==
    /\ pc = "exec_program"
    /\ \E o \in ExecProgramOutcomes(parsed_program, variables) :
          LET again == o.exc # NoExc /\ ~(\E i \in 1..Len(steps) : steps[i] = "exec_program")
          IN /\ pc' = IF again THEN "exec_program"
                      ELSE IF o.exc = NoExc THEN "build_output" ELSE "except"
             /\ exc' = IF again THEN NoExc ELSE o.exc
             /\ steps' = Append(steps, "exec_program")
             /\ result' = o.val
             /\ UNCHANGED <<env, stdout, exit_code>>
    /\ UNCHANGED <<input_data, pdl_file_path, pdl_config, template_name, variables,
                   template_text, parsed_program, output>>

\* line 51
ExecProgram ==
    /\ pc = "exec_program"
    /\ \E o \in ExecProgramOutcomes(parsed_program, variables) :
          /\ Goto("exec_program", o, "build_output")
          /\ result' = o.val
    /\ UNCHANGED <<input_data, pdl_file_path, pdl_config, template_name, variables,
                   template_text, parsed_program, output>>

\* lines 58-61
Preview(s) == IF Len(s) > PreviewLimit THEN SubSeq(s, 1, PreviewLimit) \o <<"...">> ELSE s

\* Mutant of SuccessOutput: variables_used lists the variables the template
\* references ("name") instead of the ones supplied.
SuccessOutput_Referenced(res, name, vars_) ==
    LET result_str == Strip(Str(res))
        keys == Keys(vars_)
        Referenced(k) == k = "name"
    IN IF keys.exc # NoExc THEN [exc |-> keys.exc, val |-> NoOutput]
       ELSE Ok([success |-> TRUE,
                content |-> result_str,
                template |-> name,
                variables_used |-> SelectSeq(keys.val, Referenced),
                debug_preview |-> Preview(result_str)])

\* lines 55-69
SuccessOutput(res, name, vars_) ==
    LET result_str == Strip(Str(res))
        keys == Keys(vars_)
    IN IF keys.exc # NoExc THEN [exc |-> keys.exc, val |-> NoOutput]
       ELSE Ok([success |-> TRUE,
                content |-> result_str,
                template |-> name,
                variables_used |-> keys.val,
                debug_preview |-> Preview(result_str)])

BuildOutput ==
    /\ pc = "build_output"
    /\ LET o == SuccessOutput(result, template_name, variables)
       IN /\ Goto("build_output", o, "print_output")
          /\ output' = o.val
    /\ UNCHANGED <<input_data, pdl_file_path, pdl_config, template_name, variables,
                   template_text, parsed_program, result>>

locals ==
    <<input_data, pdl_file_path, pdl_config, template_name, variables, template_text,
      parsed_program, result, output>>

\* line 71, then main() returns
PrintOutput ==
    /\ pc = "print_output"
    /\ stdout' = Append(stdout, output)
    /\ pc' = "returned"
    /\ steps' = Append(steps, "print_output")
    /\ UNCHANGED <<env, locals, exc, exit_code>>

\* line 112: main() returned, the interpreter exits with status 0
ExitNormally ==
    /\ pc = "returned"
    /\ exit_code' = 0
    /\ pc' = "done"
    /\ steps' = Append(steps, "exit")
    /\ UNCHANGED <<env, locals, exc, stdout>>

\* The except clauses of lines 73, 82, 91 and 100, in order.
ExceptClauses == <<"FileNotFoundError", "YAMLError", "KeyError", "Exception">>

\* Mutant of Handler: the catch-all clause is tried first.
Handler_CatchAllFirst(e) ==
    LET hit == {i \in 1..Len(ExceptClauses) : IsInstance(e.cls, ExceptClauses[i])}
    IN IF hit = {} THEN 0 ELSE CHOOSE i \in hit : \A j \in hit : i >= j

\* The clause that handles e: the first whose class e is an instance of.
Handler(e) ==
    LET hit == {i \in 1..Len(ExceptClauses) : IsInstance(e.cls, ExceptClauses[i])}
    IN IF hit = {} THEN 0 ELSE CHOOSE i \in hit : \A j \in hit : i <= j

\* print(json.dumps(error_output)); sys.exit(1)
FailWith(name, error_output) ==
    /\ stdout' = Append(stdout, error_output)
    /\ exit_code' = 1
    /\ pc' = "done"
    /\ steps' = Append(steps, name)
    /\ UNCHANGED <<env, locals, exc>>

\* lines 73-80
ExceptFileNotFoundError ==
    /\ pc = "except"
    /\ Handler(exc) = 1
    /\ FailWith("except FileNotFoundError",
                [success |-> FALSE,
                 error |-> <<"PDL file not found: ">> \o exc.msg,
                 error_type |-> "file_not_found"])

\* lines 82-89
ExceptYAMLError ==
    /\ pc = "except"
    /\ Handler(exc) = 2
    /\ FailWith("except YAMLError",
                [success |-> FALSE,
                 error |-> <<"YAML parsing error: ">> \o exc.msg,
                 error_type |-> "yaml_error"])

\* lines 91-98
ExceptKeyError ==
    /\ pc = "except"
    /\ Handler(exc) = 3
    /\ FailWith("except KeyError",
                [success |-> FALSE,
                 error |-> <<"Missing required field: ">> \o exc.msg,
                 error_type |-> "missing_field"])

\* Mutant of ExceptException: the error is printed and sys.exit(1) is left out.
ExceptException_NoExit ==
    /\ pc = "except"
    /\ Handler(exc) = 4
    /\ stdout' = Append(stdout,
                        [success |-> FALSE,
                         error |-> <<"AI generation error: ">> \o exc.msg,
                         error_type |-> "ai_error",
                         traceback |-> <<"Traceback (most recent call last):", exc.cls>>])
    /\ pc' = "returned"
    /\ steps' = Append(steps, "except Exception")
    /\ UNCHANGED <<env, locals, exc, exit_code>>

\* lines 100-109
ExceptException ==
    /\ pc = "except"
    /\ Handler(exc) = 4
    /\ FailWith("except Exception",
                [success |-> FALSE,
                 error |-> <<"AI generation error: ">> \o exc.msg,
                 error_type |-> "ai_error",
                 traceback |-> <<"Traceback (most recent call last):", exc.cls>>])

Next ==
    \/ ReadStdin
    \/ GetPdlFile
    \/ ResolvePath
    \/ OpenFile
    \/ LoadYaml
    \/ LookupTemplate
    \/ GetTemplate
    \/ GetText
    \/ ParseStr
    \/ ExecProgram
    \/ BuildOutput
    \/ PrintOutput
    \/ ExitNormally
    \/ ExceptFileNotFoundError
    \/ ExceptYAMLError
    \/ ExceptKeyError
    \/ ExceptException

Spec == Init /\ [][Next]_vars

\* ------------------------------------------------------- what was asked for
\* The request and the environment as the caller set them up, read from the
\* text on standard input and the file system, not from main()'s locals.
Done == pc = "done"

ReqIsObject == stdin.kind = "json" /\ stdin.doc.t = "map"

ReqMembers(k) == {i \in 1..Len(stdin.doc.entries) : stdin.doc.entries[i].key = Tok(k)}

ReqHas(k) == ReqIsObject /\ ReqMembers(k) # {}

ReqField(k) ==
    stdin.doc.entries[CHOOSE i \in ReqMembers(k) : \A j \in ReqMembers(k) : j <= i].val

ReqPath == IF ReqHas("pdl_file") THEN ReqField("pdl_file") ELSE StrV(DefaultPdlFile)

ReqNamesPath == ReqIsObject /\ ReqPath.t = "str"

\* The file the request designates: an absolute path as given, a relative one
\* under the project root /app, two directories above /app/src/server.
DesignatedFile ==
    IF ReqPath.v # <<>> /\ ReqPath.v[1] = "/" THEN Components(ReqPath.v)
    ELSE <<"app">> \o Components(ReqPath.v)

DesignatedState ==
    IF DesignatedFile \in DOMAIN files THEN files[DesignatedFile] ELSE "missing"

ReqTemplate == IF ReqHas("template") THEN ReqField("template") ELSE NoneV

FileParses == ReqNamesPath /\ DesignatedState = "file" /\ content.kind = "doc"

HasDefsMapping ==
    /\ content.doc.t = "map"
    /\ \E i \in 1..Len(content.doc.entries) :
          /\ content.doc.entries[i].key = Tok("defs")
          /\ content.doc.entries[i].val.t = "map"

DefsMapping ==
    content.doc.entries[CHOOSE i \in 1..Len(content.doc.entries) :
                           content.doc.entries[i].key = Tok("defs")].val

TemplateIsKey ==
    /\ HasDefsMapping
    /\ \E i \in 1..Len(DefsMapping.entries) : DefsMapping.entries[i].key = ReqTemplate

RequestedDef ==
    DefsMapping.entries[CHOOSE i \in 1..Len(DefsMapping.entries) :
                           DefsMapping.entries[i].key = ReqTemplate].val

DefHasText ==
    /\ RequestedDef.t = "map"
    /\ \E i \in 1..Len(RequestedDef.entries) : RequestedDef.entries[i].key = Tok("text")

\* Some statement or except clause is still to run.
CanStep ==
    \/ pc \in {"read_stdin", "get_pdl_file", "resolve_path", "open_file", "safe_load",
               "lookup_template", "get_template", "get_text", "parse_str", "exec_program",
               "build_output", "print_output", "returned"}
    \/ pc = "except" /\ Handler(exc) \in 1..Len(ExceptClauses)

\* The one response of a finished invocation and its kind.
Succeeded == Done /\ Len(stdout) = 1 /\ stdout[1].success /\ exit_code = 0

FailedAs(kind) ==
    /\ Done
    /\ Len(stdout) = 1
    /\ ~stdout[1].success
    /\ stdout[1].error_type = kind
    /\ exit_code = 1

Ran(name) == \E i \in 1..Len(steps) : steps[i] = name

EngineInvoked == Ran("parse_str") \/ Ran("exec_program")

\* The statement whose exception reached the except clauses.
FailedStep == IF Done /\ exit_code = 1 /\ Len(steps) >= 2 THEN steps[Len(steps) - 1] ELSE ""

EngineFailed == FailedStep \in {"parse_str", "exec_program"}

EngineReturned ==
    \E i \in 1..(Len(steps) - 1) : steps[i] = "exec_program" /\ steps[i + 1] = "build_output"

\* ------------------------------------------------------------------ claims
\* C1: every invocation that terminates has written exactly one response, and
\* the exit status matches it: success=true with status 0, success=false with
\* status 1; no invocation stops anywhere else, and none writes two responses.
C1_OneResponseMatchingExit ==
    /\ Len(stdout) <= 1
    /\ ~Done => (exit_code = -1 /\ CanStep)
    /\ Done =>
         /\ Len(stdout) = 1
         /\ exit_code \in {0, 1}
         /\ stdout[1].success <=> exit_code = 0
         /\ ~stdout[1].success <=> exit_code = 1

C1_Witness == Done /\ exit_code = 0 /\ Len(stdout) = 1 /\ stdout[1].success

\* C2: a request object whose pdl_file designates a path where nothing exists
\* ends with error_type file_not_found and status 1, whatever its template
\* and variables are.
C2_MissingFileIsFileNotFound ==
    (Done /\ ReqNamesPath /\ DesignatedState = "missing") => FailedAs("file_not_found")

C2_Witness ==
    /\ Done /\ ReqNamesPath /\ DesignatedState = "missing"
    /\ ReqHas("pdl_file") /\ ~IsAbs(ReqPath.v)
    /\ ~ReqHas("template")
    /\ ReqHas("variables") /\ ReqField("variables").t = "list"
    /\ FailedAs("file_not_found")

\* C3: a request whose template file exists and holds text that is not valid
\* YAML ends with error_type yaml_error and status 1, whatever its template
\* and variables are.
C3_InvalidYamlIsYamlError ==
    (Done /\ ReqNamesPath /\ DesignatedState = "file" /\ content.kind = "yaml_error")
        => FailedAs("yaml_error")

C3_Witness ==
    /\ Done /\ ReqNamesPath /\ DesignatedState = "file" /\ content.kind = "yaml_error"
    /\ ReqHas("pdl_file") /\ ~IsAbs(ReqPath.v)
    /\ ReqTemplate.t = "list"
    /\ ReqHas("variables") /\ ReqField("variables").t = "none"
    /\ FailedAs("yaml_error")

C5_EngineFailureIsAiError ==
    EngineFailed =>
        /\ FailedAs("ai_error")
        /\ stdout[1].error = <<"AI generation error: ">> \o exc.msg

\* The distinct elements of ks, each at its first place.
RECURSIVE FirstOccurrences(_, _)
FirstOccurrences(seen, ks) ==
    IF ks = <<>> THEN <<>>
    ELSE IF Head(ks) \in seen THEN FirstOccurrences(seen, Tail(ks))
    ELSE <<Head(ks)>> \o FirstOccurrences(seen \cup {Head(ks)}, Tail(ks))

RequestedKeys ==
    IF ~ReqHas("variables") THEN <<>>
    ELSE LET es == ReqField("variables").entries
         IN FirstOccurrences({}, [i \in 1..Len(es) |-> es[i].key.v[1]])

\* C6: in a success response variables_used is the keys of the request's
\* variables object in the order the request gives them (a repeated key at
\* its first place; no keys when the request has no variables member),
\* whatever the template holds or references, and template is the requested
\* template name.
C6_VariablesUsedAreRequestKeys ==
    (Done /\ Len(stdout) = 1 /\ stdout[1].success) =>
        /\ ReqHas("variables") => ReqField("variables").t = "map"
        /\ stdout[1].variables_used = RequestedKeys
        /\ stdout[1].template = ReqTemplate

\* Two variables, given in the order age, name, for a template that
\* references name only.
C6_Witness ==
    /\ Succeeded
    /\ stdout[1].variables_used = <<"age", "name">>
    /\ template_text = Tok("Hello ${name}")
    /\ stdout[1].template = Greet

\* A request object with a string template and a variables object (or none),
\* whose file parses, whose template is a key of defs and has a text.
WellFormed ==
    /\ FileParses
    /\ ReqTemplate.t = "str"
    /\ ReqHas("variables") => ReqField("variables").t = "map"
    /\ TemplateIsKey
    /\ DefHasText

AllSpace(s) == \A i \in 1..Len(s) : s[i] = " "

\* C7 as stated: for a well-formed request naming an existing template in a
\* valid template file, for every result the engine returns, the process
\* exits 0 with success=true and a non-empty content string.
C7_ContentNonEmpty ==
    (Done /\ WellFormed /\ EngineReturned) => (Succeeded /\ stdout[1].content # <<>>)

\* C7 as amended: for such a request and every result the engine returns, the
\* process exits 0 with success=true, and content is the text of the result
\* without its leading and trailing whitespace: empty exactly when that text
\* is empty or all whitespace.
C7_ContentIsStrippedResult ==
    (Done /\ WellFormed /\ EngineReturned) =>
        /\ Succeeded
        /\ LET c == stdout[1].content
               text == Str(result)
           IN /\ c = <<>> <=> AllSpace(text)
              /\ c # <<>> => (c[1] # " " /\ c[Len(c)] # " ")
              /\ \E i \in 0..(Len(text) - Len(c)) :
                    /\ SubSeq(text, i + 1, i + Len(c)) = c
                    /\ AllSpace(SubSeq(text, 1, i))
                    /\ AllSpace(SubSeq(text, i + Len(c) + 1, Len(text)))

C7_Witness ==
    /\ Done /\ WellFormed /\ EngineReturned /\ Succeeded
    /\ result = StrV(<<" ", "Hello", " ", "Ann", " ">>)
    /\ stdout[1].content = <<"Hello", " ", "Ann">>

\* C8: a requested template that is under defs and whose definition (a
\* mapping) has no text key ends with error_type missing_field and status 1
\* without the engine being called; and missing_field is reported only when
\* a key lookup on the request or the template structure failed.
C8_MissingFieldOnlyForStructure ==
    /\ (Done /\ FileParses /\ TemplateIsKey /\ RequestedDef.t = "map" /\ ~DefHasText)
          => (FailedAs("missing_field") /\ ~EngineInvoked)
    /\ FailedAs("missing_field")
          => FailedStep \in {"get_pdl_file", "lookup_template", "get_template", "get_text"}

\* The statements of main() in program order.
ProgramOrder ==
    <<"read_stdin", "get_pdl_file", "resolve_path", "open_file", "safe_load",
      "lookup_template", "get_template", "get_text", "parse_str", "exec_program",
      "build_output", "print_output", "exit">>

ExceptSteps ==
    {"except FileNotFoundError", "except YAMLError", "except KeyError", "except Exception"}

Count(name) == Cardinality({i \in 1..Len(steps) : steps[i] = name})

C9_Order ==
    /\ Count("exec_program") <= 1
    /\ \A i \in 1..Len(steps) :
          \/ /\ steps[i] \in ExceptSteps
             /\ i = Len(steps)
          \/ /\ steps[i] \notin ExceptSteps
             /\ steps[i] = ProgramOrder[i]
    /\ Ran("exec_program") => (Ran("safe_load") /\ Ran("lookup_template"))
    /\ (\E i \in 1..Len(stdout) : stdout[i].success) => (EngineReturned /\ exc = NoExc)
    /\ exc # NoExc => \A i \in 1..Len(stdout) : ~stdout[i].success

C9_AfterFailure ==
    exc # NoExc =>
        /\ steps' = Append(steps, steps'[Len(steps')])
        /\ steps'[Len(steps')] \in ExceptSteps
        /\ pc' = "done"
        /\ exit_code' = 1

\* C9: the statements run in the fixed order read stdin, resolve path, load
\* and parse the file, look up the template, execute the engine, write the
\* response; the engine is executed at most once and only after the file was
\* loaded and the template found; a success response is written only after
\* the engine returned; once a statement has failed, the only thing that runs
\* is the except clause that reports it, and no success response is written.
C9_FixedOrderNoRetry == []C9_Order /\ [][C9_AfterFailure]_vars

C9_Witness ==
    /\ Done /\ exit_code = 1
    /\ FailedStep = "exec_program"
    /\ Count("exec_program") = 1

BadRequest == ~ReqIsObject

DefaultFileMissing == files[<<"app", "prompts", "story-prompts.pdl">>] = "missing"

VariablesNotMapping == ReqHas("variables") /\ ReqField("variables").t # "map"

\* C10 as stated: when the conditions of several error kinds hold at once, the
\* one reported is the first of them in the order file_not_found, yaml_error,
\* missing_field, ai_error: file_not_found for request JSON that is malformed
\* or no object together with a missing default template file, and for a
\* missing file together with an unknown template name; yaml_error for
\* invalid YAML together with an unknown template name; missing_field for a
\* definition without text together with variables that are no mapping.
C10_ClausePrecedence ==
    Done =>
        /\ (BadRequest /\ DefaultFileMissing) => FailedAs("file_not_found")
        /\ (ReqNamesPath /\ DesignatedState = "missing" /\ ~TemplateIsKey)
              => FailedAs("file_not_found")
        /\ (ReqNamesPath /\ DesignatedState = "file" /\ content.kind = "yaml_error"
              /\ ~TemplateIsKey) => FailedAs("yaml_error")
        /\ (FileParses /\ TemplateIsKey /\ RequestedDef.t = "map" /\ ~DefHasText
              /\ VariablesNotMapping) => FailedAs("missing_field")

\* C10 as amended: the error reported is that of the first statement to fail
\* in program order: ai_error for request JSON that is malformed or no object,
\* also when the default template file is missing (the file is never looked
\* for); and, as stated, file_not_found for a missing file together with an
\* unknown template name, yaml_error for invalid YAML together with an
\* unknown template name, missing_field for a definition without text
\* together with variables that are no mapping.
C10_FirstFailureInProgramOrder ==
    Done =>
        /\ BadRequest => (FailedAs("ai_error") /\ FailedStep \in {"read_stdin", "get_pdl_file"})
        /\ (ReqNamesPath /\ DesignatedState = "missing" /\ ~TemplateIsKey)
              => (FailedAs("file_not_found") /\ FailedStep = "open_file")
        /\ (ReqNamesPath /\ DesignatedState = "file" /\ content.kind = "yaml_error"
              /\ ~TemplateIsKey) => (FailedAs("yaml_error") /\ FailedStep = "safe_load")
        /\ (FileParses /\ TemplateIsKey /\ RequestedDef.t = "map" /\ ~DefHasText
              /\ VariablesNotMapping) => (FailedAs("missing_field") /\ FailedStep = "get_text")

C10_Witness ==
    /\ Done
    /\ stdin.kind = "malformed"
    /\ DefaultFileMissing
    /\ FailedAs("ai_error")

====
